---------------------------- MODULE Spec2Model ----------------------------
(***************************************************************************)
(* A model of collect_checksums.py: the hidden/system path classifier, the *)
(* os.walk traversal with in-place pruning, the md5 digest of one file,    *)
(* and the CSV ledger that main() opens in append mode behind Python's     *)
(* default write buffer.                                                   *)
(*                                                                         *)
(* Paths and names are strings, handled character by character as the      *)
(* code handles them (basename, lower(), startswith, substring tests).     *)
(* The bytes of a file are a sequence of tokens: a ledger row is the four  *)
(* tokens  field , field \r\n ; a process that is terminated while the     *)
(* operating system is writing leaves a prefix of those tokens behind.     *)
(*                                                                         *)
(* Four specifications share the definitions: Spec is one run seen one     *)
(* file at a time, SpecRerun is several runs against one ledger,           *)
(* SpecDigest is one run seen one read at a time while other processes     *)
(* change the files it reads, and SpecClassify is the classifier called    *)
(* directly on paths of any shape.                                         *)
(***************************************************************************)
EXTENDS Integers, Sequences, FiniteSets, TLC

VARIABLES
    platform,      \* what platform.system() returns, and whether win32api imports
    output,        \* args.output: the ledger path the runs share
    ledger,        \* the ledger on disk: [exists, content]
    pc,            \* position of the running process; "idle" when none runs
    args,          \* parsed command line of the current (or last) run
    file_exists,   \* main's local file_exists (line 155)
    pending,       \* bytes written to csvfile and not yet handed to the OS
    stack,         \* os.walk: directories still to be listed
    root,          \* os.walk: the directory being yielded
    files,         \* os.walk: the files of root not yet looked at
    outcome,       \* how the last run ended: "none", "done", "raised", "killed"
    exit_code,     \* exit status of the last run (-1: no run has ended)
    runs,          \* number of runs started
    ledger0,       \* history: the ledger as the current run found it
    hashed,        \* history: paths handed to hashlib_md5 in this run, in order
    written,       \* history: paths whose writerow call returned in this run
    skipped,       \* history: paths should_ignore_file rejected in this run
    total_size,    \* hashlib_md5's local total_size (line 15)
    read_size,     \* hashlib_md5's local read_size (lines 12, 22)
    last_percent_done, \* hashlib_md5's local (lines 13, 28), times total_size
    md5_object,    \* the chunks md5_object.update has been given (line 23)
    data,          \* what the file being digested holds now, one element a read
    pos,           \* file_object: the number of elements of data already read
    reports,       \* history: the percentages this call has written (line 26)
    changes,       \* number of times another process has changed a file
    events,        \* history: what the run did to each file, in order
    discovered,    \* history: the files the traversal has listed, in order
    error,         \* the exception that ended the last run, "" when none did
    probe          \* the last direct call of the classifier and its result

\* the variables of the run seen one file at a time
run_vars == <<platform, output, ledger, pc, args, file_exists, pending, stack,
              root, files, outcome, exit_code, runs, ledger0, hashed, written,
              skipped>>

\* the locals of hashlib_md5 and the file it reads
md5_locals == <<total_size, read_size, last_percent_done, md5_object, data, pos,
                reports>>

\* the variables of the run seen one read at a time, and of the classifier
\* called directly
fine_vars == <<total_size, read_size, last_percent_done, md5_object, data, pos,
               reports, changes, events, discovered, error, probe>>

vars == <<platform, output, ledger, pc, args, file_exists, pending, stack, root,
          files, outcome, exit_code, runs, ledger0, hashed, written, skipped,
          total_size, read_size, last_percent_done, md5_object, data, pos,
          reports, changes, events, discovered, error, probe>>

(***************************************************************************)
(* Bounds of the model.                                                    *)
(***************************************************************************)
MaxRuns == 2


(***************************************************************************)
(* Python string operations, on TLA+ strings.                              *)
(***************************************************************************)
UpperChars == "ABCDEFGHIJKLMNOPQRSTUVWXYZ"
LowerChars == "abcdefghijklmnopqrstuvwxyz"

\* str.lower() of one character
LowerChar(c) ==
    IF \E i \in 1..Len(UpperChars) : SubSeq(UpperChars, i, i) = c
    THEN LET i == CHOOSE i \in 1..Len(UpperChars) : SubSeq(UpperChars, i, i) = c
         IN  SubSeq(LowerChars, i, i)
    ELSE c

RECURSIVE lower(_)
\* str.lower()
lower(s) == IF s = "" THEN "" ELSE LowerChar(Head(s)) \o lower(Tail(s))

\* str.startswith(prefix)
startswith(s, prefix) ==
    Len(s) >= Len(prefix) /\ SubSeq(s, 1, Len(prefix)) = prefix

\* the substring test  pattern in s
contains(s, pattern) ==
    \E i \in 1..(Len(s) - Len(pattern) + 1) :
        SubSeq(s, i, i + Len(pattern) - 1) = pattern

\* positions of the path separator in s
SepPositions(s) == {i \in 1..Len(s) : SubSeq(s, i, i) = "/"}

Max(S) == CHOOSE m \in S : \A n \in S : n <= m

\* os.path.basename: what follows the last separator
basename(p) ==
    IF SepPositions(p) = {} THEN p
    ELSE SubSeq(p, Max(SepPositions(p)) + 1, Len(p))

\* os.path.dirname: what precedes the last separator
dirname(p) ==
    IF SepPositions(p) = {} THEN ""
    ELSE SubSeq(p, 1, Max(SepPositions(p)) - 1)

\* os.path.join(a, b) for a relative b
join(a, b) ==
    IF a = "" \/ SubSeq(a, Len(a), Len(a)) = "/" THEN a \o b ELSE a \o "/" \o b

(***************************************************************************)
(* The file system the runs scan.  Everything but the ledger is fixed.     *)
(*   D/a.txt  D/.hidden  D/Thumbs.db                                       *)
(*   D/.git/c.txt  D/.git/o/d.txt                                          *)
(*   D/lost+found/e.txt                                                    *)
(*   b.txt                                                                 *)
(* On Windows D/Thumbs.db carries the system attribute and D/lost+found    *)
(* the hidden attribute.                                                   *)
(***************************************************************************)
\* os.scandir of each directory: its subdirectories and its files, in order
Listing ==
    [d \in {"D", "D/.git", "D/.git/o", "D/lost+found"} |->
        CASE d = "D"            -> [dirs  |-> <<".git", "lost+found">>,
                                    files |-> <<"a.txt", ".hidden", "Thumbs.db">>]
          [] d = "D/.git"       -> [dirs |-> <<"o">>, files |-> <<"c.txt">>]
          [] d = "D/.git/o"     -> [dirs |-> <<>>,    files |-> <<"d.txt">>]
          [] d = "D/lost+found" -> [dirs |-> <<>>,    files |-> <<"e.txt">>]]

Directories == DOMAIN Listing

\* the bytes of each regular file other than the ledger
Content ==
    [f \in {"D/a.txt", "D/.hidden", "D/Thumbs.db", "D/.git/c.txt",
            "D/.git/o/d.txt", "D/lost+found/e.txt", "b.txt"} |->
        CASE f = "D/a.txt"            -> "hello"
          [] f = "D/.hidden"          -> "x"
          [] f = "D/Thumbs.db"        -> "thumbs"
          [] f = "D/.git/c.txt"       -> "c"
          [] f = "D/.git/o/d.txt"     -> "d"
          [] f = "D/lost+found/e.txt" -> ""
          [] f = "b.txt"              -> "bee"]

RegularFiles == DOMAIN Content

\* the Windows attribute bits of a path
Attributes(p) ==
    CASE p = "D/Thumbs.db"  -> {"FILE_ATTRIBUTE_SYSTEM"}
      [] p = "D/lost+found" -> {"FILE_ATTRIBUTE_HIDDEN"}
      [] OTHER              -> {}

\* the values of args.path and of args.output the runs are given
Roots   == {"D", "b.txt", "D/.hidden", "D/Thumbs.db", "nope"}
Outputs == {"checksums.csv", "D/checksums.csv"}

Platforms ==
    { [system |-> "Linux",   win32api |-> FALSE],
      [system |-> "Darwin",  win32api |-> FALSE],
      [system |-> "Windows", win32api |-> TRUE],
      [system |-> "Windows", win32api |-> FALSE],
      [system |-> "FreeBSD", win32api |-> FALSE] }

\* os.path.isfile, os.path.isdir
isfile(p) == p \in RegularFiles \/ (p = output /\ ledger.exists)
isdir(p)  == p \in Directories

(***************************************************************************)
(* The path classifier (lines 49-103 and 140-149).                         *)
(***************************************************************************)
\* has_hidden_attribute (lines 88-99); pf is what the platform answers
has_hidden_attribute(pf, filepath) ==
    IF pf.system = "Windows"
    THEN IF pf.win32api
         THEN "FILE_ATTRIBUTE_HIDDEN" \in Attributes(filepath)
         ELSE FALSE
    ELSE FALSE

\* is_hidden_file (lines 49-55)
is_hidden_file(pf, filepath) ==
    LET name == basename(filepath)
    IN  startswith(name, ".") \/ has_hidden_attribute(pf, filepath)

WindowsPatterns ==
    {"thumbs.db", "desktop.ini", "$recycle.bin", "system volume information",
     "pagefile.sys", "hiberfil.sys", "swapfile.sys"}
DarwinPatterns ==
    {".ds_store", ".localized", ".spotlight-v100", ".trashes", ".fseventsd"}
LinuxPatterns ==
    {"/proc/", "/sys/", "/dev/", "/run/", "/tmp/", "lost+found", ".gvfs"}

\* is_system_file (lines 57-86)
is_system_file(pf, filepath) ==
    CASE pf.system = "Windows" ->
            IF pf.win32api
            THEN "FILE_ATTRIBUTE_SYSTEM" \in Attributes(filepath)
            ELSE LET name == lower(basename(filepath))
                 IN  \E pattern \in WindowsPatterns : contains(name, pattern)
      [] pf.system = "Darwin" ->
            LET name == lower(basename(filepath))
            IN  \E pattern \in DarwinPatterns : pattern = name
      [] pf.system = "Linux" ->
            \E pattern \in LinuxPatterns : contains(lower(filepath), pattern)
      [] OTHER -> FALSE

\* every path a run can hand to the classifier
Paths ==
    Roots \cup Outputs \cup RegularFiles \cup Directories

\* the classifier reads nothing but the platform and the path: its answers,
\* worked out once
Hidden == [pf \in Platforms |-> [p \in Paths |-> is_hidden_file(pf, p)]]
System == [pf \in Platforms |-> [p \in Paths |-> is_system_file(pf, p)]]

\* a filter that tests each kind of entry against the other kind's flag
should_ignore_file_swapped(filepath) ==
    LET is_hidden == Hidden[platform][filepath]
        is_system == System[platform][filepath]
    IN  IF is_hidden /\ ~args.include_system THEN TRUE
        ELSE IF is_system /\ ~args.include_hidden THEN TRUE
        ELSE FALSE

\* main.custom_should_ignore_file (lines 140-149), which main binds to
\* should_ignore_file before anything is scanned (line 152)
should_ignore_file(filepath) ==
    LET is_hidden == Hidden[platform][filepath]
        is_system == System[platform][filepath]
    IN  IF is_hidden /\ ~args.include_hidden THEN TRUE
        ELSE IF is_system /\ ~args.include_system THEN TRUE
        ELSE FALSE

(***************************************************************************)
(* Bytes.  A regular file holds one token of raw data (none when it is     *)
(* empty); the csv module writes a row as  field , field \r\n  in one      *)
(* write call.                                                             *)
(***************************************************************************)
Field(v) == [t |-> "field", v |-> v]
Comma    == [t |-> "sep",   v |-> ","]
Eol      == [t |-> "eol",   v |-> "\r\n"]

\* the line csv.writer builds from a two-column row
Line(row) == <<Field(row[1]), Comma, Field(row[2]), Eol>>

\* fieldnames (line 158)
fieldnames == <<"Filename", "MD5 Checksum">>

\* what open(filename, 'rb') reads
FileBytes(p) ==
    IF p = output THEN ledger.content
    ELSE IF Content[p] = "" THEN <<>>
    ELSE <<[t |-> "raw", v |-> Content[p]]>>

RECURSIVE Flat(_)
Flat(bytes) == IF bytes = <<>> THEN "" ELSE Head(bytes).v \o Flat(Tail(bytes))

\* hashlib.md5 over all the bytes read (lines 14-29): a value that differs
\* whenever the bytes differ
hashlib_md5(filename) == "md5(" \o Flat(FileBytes(filename)) \o ")"

(***************************************************************************)
(* The ledger file object (lines 154-164).                                 *)
(***************************************************************************)
\* open(csv_filename, "w"): an existing file is emptied
open_truncate(content) == <<>>

\* open(csv_filename, "a"): the content an existing file keeps
open_append(content) == content

\* a header written by every run
header_always(exists) == TRUE

\* the test that guards writer.writeheader() (line 161)
header_needed(exists) == ~exists

\* csvfile.write(bytes): the bytes join the buffer; the library hands the
\* buffer to the operating system when it has filled (flush), else keeps it
Buffered(bytes, flush) ==
    IF flush
    THEN /\ ledger'  = [ledger EXCEPT !.content = @ \o pending \o bytes]
         /\ pending' = <<>>
    ELSE /\ pending' = pending \o bytes
         /\ UNCHANGED ledger

\* leaving the with block, normally or by an exception: close() flushes
Closed ==
    /\ ledger'  = [ledger EXCEPT !.content = @ \o pending]
    /\ pending' = <<>>

\* the end of a process: its locals are gone
Ended(how, code) ==
    /\ pc' = "idle"
    /\ outcome' = how
    /\ exit_code' = code
    /\ stack' = <<>>
    /\ root' = ""
    /\ files' = <<>>
    /\ file_exists' = FALSE

(***************************************************************************)
(* The run: main() and process_path().                                     *)
(***************************************************************************)
\* no direct call of the classifier has been made
NoProbe ==
    [path |-> "", exists |-> FALSE,
     hidden |-> [raised |-> "", value |-> FALSE],
     system |-> [raised |-> "", value |-> FALSE]]

Init ==
    /\ platform \in Platforms
    /\ output \in Outputs
    /\ ledger = [exists |-> FALSE, content |-> <<>>]
    /\ pc = "idle"
    /\ args = [path |-> "", include_hidden |-> FALSE, include_system |-> FALSE]
    /\ file_exists = FALSE
    /\ pending = <<>>
    /\ stack = <<>>
    /\ root = ""
    /\ files = <<>>
    /\ outcome = "none"
    /\ exit_code = -1
    /\ runs = 0
    /\ ledger0 = [exists |-> FALSE, content |-> <<>>]
    /\ hashed = <<>>
    /\ written = <<>>
    /\ skipped = {}
    /\ total_size = 0
    /\ read_size = 0
    /\ last_percent_done = 0
    /\ md5_object = <<>>
    /\ data = <<>>
    /\ pos = 0
    /\ reports = <<>>
    /\ changes = 0
    /\ events = <<>>
    /\ discovered = <<>>
    /\ error = ""
    /\ probe = NoProbe

\* lines 126-152: the command line is parsed and the filter is bound
Begin(path, include_hidden, include_system) ==
    /\ pc = "idle"
    /\ runs' = runs + 1
    /\ args' = [path |-> path, include_hidden |-> include_hidden,
                include_system |-> include_system]
    /\ pc' = "open"
    /\ outcome' = "running"
    /\ exit_code' = -1
    /\ ledger0' = ledger
    /\ hashed' = <<>>
    /\ written' = <<>>
    /\ skipped' = {}
    /\ discovered' = <<>>
    /\ error' = ""
    /\ UNCHANGED <<platform, output, ledger, file_exists, pending, stack, root,
                   files, md5_locals, changes, events, probe>>

\* the program is started
Start(path, include_hidden, include_system) ==
    /\ runs = 0
    /\ Begin(path, include_hidden, include_system)

\* the program is started again, with the same args.output, after an
\* earlier run has ended
Rerun(path, include_hidden, include_system) ==
    /\ runs >= 1
    /\ runs < MaxRuns
    /\ Begin(path, include_hidden, include_system)

\* lines 154-159: file_exists is sampled, the ledger is opened for appending
OpenLedger ==
    /\ pc = "open"
    /\ file_exists' = isfile(output)
    /\ ledger' = [exists |-> TRUE, content |-> open_append(ledger.content)]
    /\ pending' = <<>>
    /\ pc' = IF header_needed(isfile(output)) THEN "header" ELSE "process"
    /\ UNCHANGED <<platform, output, args, stack, root, files, outcome,
                   exit_code, runs, ledger0, hashed, written, skipped, fine_vars>>

\* lines 161-162: writer.writeheader()
WriteHeader(flush) ==
    /\ pc = "header"
    /\ Buffered(Line(fieldnames), flush)
    /\ pc' = "process"
    /\ UNCHANGED <<platform, output, args, file_exists, stack, root, files,
                   outcome, exit_code, runs, ledger0, hashed, written, skipped,
                   fine_vars>>

\* lines 107, 112: process_path looks at what its argument is
ProcessPath ==
    /\ pc = "process"
    /\ IF isfile(args.path)
       THEN pc' = "single" /\ stack' = <<>>
       ELSE IF isdir(args.path)
            THEN pc' = "walk" /\ stack' = <<args.path>>
            ELSE pc' = "return" /\ stack' = <<>>
    /\ discovered' = IF isfile(args.path) THEN <<args.path>> ELSE <<>>
    /\ UNCHANGED <<platform, output, ledger, args, file_exists, pending, root,
                   files, outcome, exit_code, runs, ledger0, hashed, written,
                   skipped, md5_locals, changes, events, error, probe>>

\* lines 108 and 119: the filter rejects filepath
Ignore(filepath, next) ==
    /\ skipped' = skipped \cup {filepath}
    /\ pc' = next
    /\ UNCHANGED <<ledger, pending, hashed, written, outcome, exit_code,
                   stack, root, file_exists, error>>

\* lines 109-111 and 120-122: the digest, then the row
Record(filepath, flush, next) ==
    /\ hashed' = Append(hashed, filepath)
    /\ Buffered(Line(<<filepath, hashlib_md5(filepath)>>), flush)
    /\ written' = Append(written, filepath)
    /\ pc' = next
    /\ UNCHANGED <<skipped, outcome, exit_code, stack, root, file_exists,
                   error>>

\* lines 15-19 raise OSError (the file is gone or unreadable): nothing in
\* process_path or main catches it, the with block closes the ledger and
\* the interpreter exits with status 1
Raise(filepath) ==
    /\ hashed' = Append(hashed, filepath)
    /\ Closed
    /\ Ended("raised", 1)
    /\ error' = "OSError"
    /\ UNCHANGED <<written, skipped>>

\* a file named on the command line is taken whatever the filter says
single_unfiltered(path) == FALSE

\* line 108: the filter is asked about the file named on the command line
single_ignored(path) == should_ignore_file(path)

\* lines 107-111: the argument is a regular file
ProcessSingle(readable, flush) ==
    /\ pc = "single"
    /\ \/ single_ignored(args.path) /\ Ignore(args.path, "return")
          /\ files' = files
       \/ ~single_ignored(args.path) /\ readable
          /\ Record(args.path, flush, "return") /\ files' = files
       \/ ~single_ignored(args.path) /\ ~readable /\ Raise(args.path)
    /\ UNCHANGED <<platform, output, args, runs, ledger0, md5_locals, changes,
                   events, discovered, probe>>

\* the files of top without the ledger
ScanFiles_listed(top) == Listing[top].files

\* os.scandir(top): the files of top, the ledger among them once it exists
ScanFiles(top) ==
    Listing[top].files \o
        (IF ledger.exists /\ dirname(output) = top THEN <<basename(output)>> ELSE <<>>)

\* the paths join(top, d), d in seq, that the filter rejects (ignored = TRUE)
\* or lets through (ignored = FALSE), in order
RECURSIVE Filter(_, _, _)
Filter(seq, top, ignored) ==
    IF seq = <<>> THEN <<>>
    ELSE IF should_ignore_file(join(top, Head(seq))) = ignored
         THEN <<join(top, Head(seq))>> \o Filter(Tail(seq), top, ignored)
         ELSE Filter(Tail(seq), top, ignored)

\* dirs left as os.walk listed it: nothing is pruned
RECURSIVE Joined(_, _)
Joined(seq, top) ==
    IF seq = <<>> THEN <<>> ELSE <<join(top, Head(seq))>> \o Joined(Tail(seq), top)

all_dirs(top) == Joined(Listing[top].dirs, top)

\* dirs pruned by the filter as it was before main bound its own (lines
\* 101-103): the flags are not looked at
kept_dirs_unflagged(top) ==
    SelectSeq(all_dirs(top),
              LAMBDA d : ~(Hidden[platform][d] \/ System[platform][d]))

\* line 115: the subdirectories of top that os.walk is left to descend into
kept_dirs(top) == Filter(Listing[top].dirs, top, FALSE)

\* line 115: the subdirectories of top the filter removes from dirs
pruned_dirs(top) == Filter(Listing[top].dirs, top, TRUE)

\* lines 113-115: os.walk yields the next directory and its subdirectories
\* are pruned in place; os.walk descends only into the ones that are left
WalkDir ==
    /\ pc = "walk"
    /\ files = <<>>
    /\ stack # <<>>
    /\ LET top == Head(stack)
       IN  /\ root' = top
           /\ files' = ScanFiles(top)
           /\ stack' = kept_dirs(top) \o Tail(stack)
           /\ skipped' = skipped \cup
                  {pruned_dirs(top)[i] : i \in 1..Len(pruned_dirs(top))}
           /\ discovered' = discovered \o Joined(ScanFiles(top), top)
    /\ UNCHANGED <<platform, output, ledger, pc, args, file_exists, pending,
                   outcome, exit_code, runs, ledger0, hashed, written,
                   md5_locals, changes, events, error, probe>>

\* lines 117-122: the next file of the directory
WalkFile(readable, flush) ==
    /\ pc = "walk"
    /\ files # <<>>
    /\ LET filepath == join(root, Head(files))
       IN  \/ should_ignore_file(filepath) /\ Ignore(filepath, "walk")
              /\ files' = Tail(files)
           \/ ~should_ignore_file(filepath) /\ readable
              /\ Record(filepath, flush, "walk") /\ files' = Tail(files)
           \/ ~should_ignore_file(filepath) /\ ~readable /\ Raise(filepath)
    /\ UNCHANGED <<platform, output, args, runs, ledger0, md5_locals, changes,
                   events, discovered, probe>>

\* process_path has returned: the argument was neither file nor directory,
\* or the one file is done, or os.walk is exhausted
Returned ==
    \/ pc = "return"
    \/ pc = "walk" /\ files = <<>> /\ stack = <<>>

\* line 164 returns, the with block closes the ledger, main returns
Exit ==
    /\ Returned
    /\ Closed
    /\ Ended("done", 0)
    /\ UNCHANGED <<platform, output, args, runs, ledger0, hashed, written,
                   skipped, fine_vars>>

(***************************************************************************)
(* Termination of the process from outside (a signal, a power cut).        *)
(***************************************************************************)
\* the path the process is about to digest and record, "" when there is none
Current ==
    CASE pc = "single"                  -> args.path
      [] pc = "walk" /\ files # <<>>    -> join(root, Head(files))
      [] OTHER                          -> ""

\* the bytes the next step of the process hands to the operating system if
\* the library decides to empty its buffer in that step
InFlight ==
    CASE pc = "header" -> pending \o Line(fieldnames)
      [] pc = "single" /\ ~single_ignored(Current) ->
            pending \o Line(<<Current, hashlib_md5(Current)>>)
      [] pc = "walk" /\ Current # "" /\ ~should_ignore_file(Current) ->
            pending \o Line(<<Current, hashlib_md5(Current)>>)
      [] Returned -> pending
      [] OTHER -> <<>>

\* the process stops between two steps: what the buffer holds is lost, and
\* so is what the process knew
Terminate ==
    /\ pc # "idle"
    /\ pending' = <<>>
    /\ Ended("killed", 137)
    /\ hashed' = <<>>
    /\ written' = <<>>
    /\ skipped' = {}
    /\ discovered' = <<>>
    /\ UNCHANGED <<platform, output, ledger, args, runs, ledger0, md5_locals,
                   changes, events, error, probe>>

\* the process stops while the operating system is writing the buffer out:
\* the first k tokens have reached the file
TerminateInWrite ==
    /\ pc # "idle"
    /\ \E k \in 1..(Len(InFlight) - 1) :
          ledger' = [ledger EXCEPT !.content = @ \o SubSeq(InFlight, 1, k)]
    /\ pending' = <<>>
    /\ Ended("killed", 137)
    /\ hashed' = <<>>
    /\ written' = <<>>
    /\ skipped' = {}
    /\ discovered' = <<>>
    /\ UNCHANGED <<platform, output, args, runs, ledger0, md5_locals, changes,
                   events, error, probe>>

\* a run seen one file at a time: hashlib_md5 and the row are one step
Next ==
    \/ \E path \in Roots, include_hidden, include_system \in BOOLEAN :
          Start(path, include_hidden, include_system)
    \/ OpenLedger
    \/ \E flush \in BOOLEAN : WriteHeader(flush)
    \/ ProcessPath
    \/ \E readable, flush \in BOOLEAN : ProcessSingle(readable, flush)
    \/ WalkDir
    \/ \E readable, flush \in BOOLEAN : WalkFile(readable, flush)
    \/ Exit
    \/ Terminate
    \/ TerminateInWrite

\* one run of the program, on any platform
Spec == Init /\ [][Next]_vars

\* runs of the program one after the other against the same ledger.  What
\* main does with the ledger does not read the platform; it is fixed here.
InitRerun == Init /\ platform.system = "Linux"

NextRerun ==
    \/ Next
    \/ \E path \in Roots, include_hidden, include_system \in BOOLEAN :
          Rerun(path, include_hidden, include_system)

SpecRerun == InitRerun /\ [][NextRerun]_vars

(***************************************************************************)
(* hashlib_md5 chunk by chunk (lines 8-31), inside the run.                *)
(***************************************************************************)
MaxChanges == 1

\* the most bytes one file_object.read returns (line 19)
ChunkSize == 2^20

\* the length in bytes of each regular file other than the ledger; Content
\* names the bytes and spells them out only where they are few
Size ==
    [f \in RegularFiles |->
        CASE f = "D/a.txt"            -> 5
          [] f = "D/.hidden"          -> 1
          [] f = "D/Thumbs.db"        -> 2 * ChunkSize + 512
          [] f = "D/.git/c.txt"       -> 1
          [] f = "D/.git/o/d.txt"     -> 1
          [] f = "D/lost+found/e.txt" -> 0
          [] f = "b.txt"              -> ChunkSize]

\* n bytes named v as the successive results of read(2**20)
RECURSIVE Split(_, _)
Split(v, n) ==
    IF n = 0 THEN <<>>
    ELSE IF n <= ChunkSize THEN <<[t |-> "raw", v |-> v, n |-> n]>>
    ELSE <<[t |-> "raw", v |-> v, n |-> ChunkSize]>> \o Split("", n - ChunkSize)

\* what open(filename, 'rb') finds, as the successive results of read(2**20)
Chunks(p) ==
    IF p = output
    THEN Split(Flat(ledger.content), Len(Flat(ledger.content)))
    ELSE Split(Content[p], Size[p])

RECURSIVE Bytes(_)
\* the number of bytes in a sequence of chunks
Bytes(chunks) == IF chunks = <<>> THEN 0 ELSE Head(chunks).n + Bytes(Tail(chunks))

\* another process appends g bytes to the file: they fill up an unread short
\* last chunk and the rest makes a chunk of its own
Grown(d, p, g) ==
    IF Len(d) > p /\ d[Len(d)].n < ChunkSize
    THEN LET last == d[Len(d)]
             room == ChunkSize - last.n
             full == [d EXCEPT ![Len(d)] =
                        [t |-> "raw", v |-> last.v \o "+",
                         n |-> IF g <= room THEN last.n + g ELSE ChunkSize]]
         IN  IF g <= room THEN full
             ELSE Append(full, [t |-> "raw", v |-> "+", n |-> g - room])
    ELSE Append(d, [t |-> "raw", v |-> "+", n |-> g])

\* the file the run is looking at
CurrentFile == IF files # <<>> THEN join(root, Head(files)) ELSE args.path

\* where process_path goes on after a file, and the files left to look at
AfterFile == IF files # <<>> THEN "walk" ELSE "return"
RestFiles == IF files # <<>> THEN Tail(files) ELSE files

\* process_path is about to look at a file (lines 108 and 119)
AtFile == pc = "single" \/ (pc = "walk" /\ files # <<>>)

\* line 108 or 119 for the current file
ignored == IF pc = "single" THEN single_ignored(CurrentFile)
           ELSE should_ignore_file(CurrentFile)

Event(e, f, md5) == [e |-> e, f |-> f, md5 |-> md5]

\* hashlib_md5 has returned or was left by an exception: its locals are gone
Unwound ==
    /\ total_size' = 0
    /\ read_size' = 0
    /\ last_percent_done' = 0
    /\ md5_object' = <<>>
    /\ data' = <<>>
    /\ pos' = 0
    /\ reports' = <<>>

\* lines 108 and 119: the filter rejects the file
Skip ==
    /\ AtFile
    /\ ignored
    /\ Ignore(CurrentFile, AfterFile)
    /\ files' = RestFiles
    /\ events' = Append(events, Event("skip", CurrentFile, ""))
    /\ UNCHANGED <<platform, output, args, runs, ledger0, md5_locals, changes,
                   discovered, probe>>

\* lines 12-17: the size is sampled and the file is opened; either raises
\* OSError when the file is gone or unreadable
md5_open(readable) ==
    /\ AtFile
    /\ ~ignored
    /\ \/ /\ readable
          /\ hashed' = Append(hashed, CurrentFile)
          /\ read_size' = 0
          /\ last_percent_done' = 0
          /\ md5_object' = <<>>
          /\ total_size' = Bytes(Chunks(CurrentFile))
          /\ data' = Chunks(CurrentFile)
          /\ pos' = 0
          /\ reports' = <<>>
          /\ pc' = "read"
          /\ events' = Append(events, Event("open", CurrentFile, ""))
          /\ UNCHANGED <<ledger, pending, stack, root, files, file_exists,
                         outcome, exit_code, written, skipped, error>>
       \/ /\ ~readable
          /\ Raise(CurrentFile)
          /\ events' = Append(events, Event("raise", CurrentFile, "OSError"))
          /\ UNCHANGED md5_locals
    /\ UNCHANGED <<platform, output, args, runs, ledger0, changes, discovered,
                   probe>>

\* hashlib.md5() with no update call (lines 14 and 29)
EmptyDigest == "md5(" \o Flat(<<>>) \o ")"

\* the progress is worked out for every read, the empty one too
divides_always(buf) == TRUE

\* lines 20-21: the loop is left on an empty read, before line 24 divides
divides(buf) == buf # <<>>

\* lines 19-28: one turn of the loop.  percent_done is read_size' * 100 over
\* total_size; last_percent_done holds its numerator, and what line 26
\* formats with %d is the quotient rounded down
md5_read ==
    /\ pc = "read"
    /\ LET buf == IF pos < Len(data) THEN <<data[pos + 1]>> ELSE <<>>
           percent_done == 100 * (read_size + Bytes(buf))
       IN  \/ /\ divides(buf)
              /\ total_size = 0
              /\ Closed
              /\ Ended("raised", 1)
              /\ error' = "ZeroDivisionError"
              /\ Unwound
              /\ events' = Append(events, Event("raise", CurrentFile,
                                                "ZeroDivisionError"))
           \/ /\ ~(divides(buf) /\ total_size = 0)
              /\ buf = <<>>
              /\ pc' = "hexdigest"
              /\ events' = Append(events, Event("eof", CurrentFile, ""))
              /\ UNCHANGED <<ledger, pending, stack, root, files, file_exists,
                             outcome, exit_code, error, md5_locals>>
           \/ /\ ~(divides(buf) /\ total_size = 0)
              /\ buf # <<>>
              /\ pos' = pos + 1
              /\ read_size' = read_size + Bytes(buf)
              /\ md5_object' = md5_object \o buf
              /\ IF percent_done > last_percent_done
                 THEN /\ reports' = Append(reports, percent_done \div total_size)
                      /\ last_percent_done' = percent_done
                 ELSE UNCHANGED <<reports, last_percent_done>>
              /\ UNCHANGED <<ledger, pending, stack, root, files, file_exists,
                             outcome, exit_code, error, pc, events, total_size,
                             data>>
    /\ UNCHANGED <<platform, output, args, runs, ledger0, hashed, written,
                   skipped, changes, discovered, probe>>

\* the row is handed to the writer as soon as the file is open
digest_started == pc \in {"read", "hexdigest"}

\* lines 109-111 and 120-122: writerow is reached when hashlib_md5 returns
digest_done == pc = "hexdigest"

\* lines 29-31, then 110-111 or 121-122: the digest is finalised and the row
\* is written
md5_row(flush) ==
    /\ digest_done
    /\ LET md5_output == "md5(" \o Flat(md5_object) \o ")"
       IN  /\ Buffered(Line(<<CurrentFile, md5_output>>), flush)
           /\ events' = Append(events, Event("row", CurrentFile, md5_output))
    /\ written' = Append(written, CurrentFile)
    /\ pc' = AfterFile
    /\ files' = RestFiles
    /\ Unwound
    /\ UNCHANGED <<platform, output, args, runs, ledger0, hashed, skipped,
                   stack, root, file_exists, outcome, exit_code, changes,
                   discovered, error, probe>>

\* another process appends g bytes to the file that is being digested
FileGrows(g) ==
    /\ pc = "read"
    /\ changes < MaxChanges
    /\ changes' = changes + 1
    /\ data' = Grown(data, pos, g)
    /\ events' = Append(events, Event("grow", CurrentFile, ""))
    /\ UNCHANGED <<run_vars, total_size, read_size, last_percent_done,
                   md5_object, pos, reports, discovered, error, probe>>

\* another process cuts the file that is being digested down to what has
\* been read of it
FileShrinks ==
    /\ pc = "read"
    /\ changes < MaxChanges
    /\ Len(data) > pos
    /\ changes' = changes + 1
    /\ data' = SubSeq(data, 1, pos)
    /\ events' = Append(events, Event("shrink", CurrentFile, ""))
    /\ UNCHANGED <<run_vars, total_size, read_size, last_percent_done,
                   md5_object, pos, reports, discovered, error, probe>>

NextDigest ==
    \/ \E path \in Roots, include_hidden, include_system \in BOOLEAN :
          Start(path, include_hidden, include_system)
    \/ OpenLedger
    \/ \E flush \in BOOLEAN : WriteHeader(flush)
    \/ ProcessPath
    \/ WalkDir
    \/ Skip
    \/ \E readable \in BOOLEAN : md5_open(readable)
    \/ md5_read
    \/ \E flush \in BOOLEAN : md5_row(flush)
    \/ \E g \in {1, ChunkSize} : FileGrows(g)
    \/ FileShrinks
    \/ Exit

\* one run of the program seen one read at a time, while other processes
\* change the files it reads.  hashlib_md5 and the loop that calls it do not
\* read the platform; it is fixed here.
InitDigest == Init /\ platform.system = "Linux"

SpecDigest == InitDigest /\ [][NextDigest]_vars

(***************************************************************************)
(* The classifier called directly (lines 49-99), on paths of any shape,    *)
(* among them paths that do not exist.                                     *)
(***************************************************************************)
\* paths the tree above does not hold, of the shapes the patterns are about
OtherPaths ==
    {"/tmp/D/a.txt", "/tmp/D", "/home/u/D/a.txt", "D/lost+found-backup/a.txt",
     "D/lost+found-backup", "lost+found", "D/thumbs.db.bak", "D/THUMBS.DB",
     "D/my.DS_Store", "D/.DS_Store", "D/notes.txt", "/proc/1/status"}

\* the paths the classifier is called with
ProbePaths == Paths \cup OtherPaths

\* lines 62 and 93: win32api.GetFileAttributes raises pywintypes.error for a
\* path that is not there or whose attributes cannot be read; "" when it
\* returns the attributes
GetFileAttributes_error(filepath, exists) ==
    IF exists THEN "" ELSE "pywintypes.error"

\* the attribute lookup of lines 62 and 93 is reached on this platform
reads_attributes(pf) == pf.system = "Windows" /\ pf.win32api

\* lines 64 and 95: the handler around the attribute lookup takes ImportError
caught(exception) == exception = "ImportError"

\* how a call ends: with a value, or with an exception
Value(v)             == [raised |-> "", value |-> v]
Exception(exception) == [raised |-> exception, value |-> FALSE]

\* has_hidden_attribute (lines 88-99) with its exceptions
has_hidden_attribute_call(pf, filepath, exists) ==
    LET exception == GetFileAttributes_error(filepath, exists)
    IN  IF reads_attributes(pf) /\ exception # ""
        THEN IF caught(exception) THEN Value(FALSE) ELSE Exception(exception)
        ELSE Value(has_hidden_attribute(pf, filepath))

\* is_hidden_file (lines 49-55) with its exceptions; the attribute is looked
\* up only when the name has no leading dot
is_hidden_file_call(pf, filepath, exists) ==
    IF startswith(basename(filepath), ".") THEN Value(TRUE)
    ELSE has_hidden_attribute_call(pf, filepath, exists)

\* is_system_file (lines 57-86) with its exceptions; the fallback of lines
\* 66-71 runs when the handler takes the exception
is_system_file_call(pf, filepath, exists) ==
    LET exception == GetFileAttributes_error(filepath, exists)
    IN  IF reads_attributes(pf) /\ exception # ""
        THEN IF caught(exception)
             THEN Value(is_system_file([pf EXCEPT !.win32api = FALSE], filepath))
             ELSE Exception(exception)
        ELSE Value(is_system_file(pf, filepath))

\* is_hidden_file(filepath) and is_system_file(filepath) are called
Classify(filepath, exists) ==
    /\ pc = "idle"
    /\ runs = 0
    /\ probe' = [path   |-> filepath,
                 exists |-> exists,
                 hidden |-> is_hidden_file_call(platform, filepath, exists),
                 system |-> is_system_file_call(platform, filepath, exists)]
    /\ UNCHANGED <<run_vars, md5_locals, changes, events, discovered, error>>

NextClassify ==
    \E filepath \in ProbePaths, exists \in BOOLEAN : Classify(filepath, exists)

\* calls of the classifier, on any platform
SpecClassify == Init /\ [][NextClassify]_vars

(***************************************************************************)
(* Reading a ledger back, and what the filter policy asks for.             *)
(***************************************************************************)
Range(seq) == {seq[i] : i \in 1..Len(seq)}

IsPrefix(a, b) == Len(a) <= Len(b) /\ SubSeq(b, 1, Len(a)) = a

EolPositions(bytes) == {i \in 1..Len(bytes) : bytes[i] = Eol}

Min(S) == CHOOSE m \in S : \A n \in S : m <= n

\* the terminated lines of a file, each without its terminator
RECURSIVE Lines(_)
Lines(bytes) ==
    IF EolPositions(bytes) = {} THEN <<>>
    ELSE LET i == Min(EolPositions(bytes))
         IN  <<SubSeq(bytes, 1, i - 1)>> \o Lines(SubSeq(bytes, i + 1, Len(bytes)))

\* what follows the last terminator of a file
Unterminated(bytes) ==
    IF EolPositions(bytes) = {} THEN bytes
    ELSE SubSeq(bytes, Max(EolPositions(bytes)) + 1, Len(bytes))

HeaderLine == <<Field("Filename"), Comma, Field("MD5 Checksum")>>

\* a complete data row: a file name, a comma, a digest
IsDataLine(l) ==
    /\ Len(l) = 3
    /\ l[1].t = "field" /\ l[2] = Comma /\ l[3].t = "field"
    /\ startswith(l[3].v, "md5(")
    /\ l # HeaderLine

\* the file names of the lines of a file, in order
NamesOf(ls) == [i \in 1..Len(ls) |-> IF ls[i] = <<>> THEN "" ELSE ls[i][1].v]

\* a ledger is consistent: nothing unterminated, a header first, complete
\* data rows after it
Consistent(bytes) ==
    /\ Unterminated(bytes) = <<>>
    /\ \A i \in 1..Len(Lines(bytes)) :
          IF i = 1 THEN Lines(bytes)[i] = HeaderLine
          ELSE IsDataLine(Lines(bytes)[i])

\* the bytes the current run has added to the ledger
Added == SubSeq(ledger.content, Len(ledger0.content) + 1, Len(ledger.content))

\* the filter policy of the run: a path is excluded when it is hidden and
\* hidden entries are not included, or system and system entries are not
Excluded(p) ==
    \/ Hidden[platform][p] /\ ~args.include_hidden
    \/ System[platform][p] /\ ~args.include_system

\* the directories above p, up to the first component
AncestorDirs(p) == {SubSeq(p, 1, i - 1) : i \in SepPositions(p)}

\* the directories above p that the walk from args.path has to descend into
DescendedDirs(p) == {d \in AncestorDirs(p) : Len(d) > Len(args.path)}

\* the regular files that exist, the ledger among them
AllFiles == RegularFiles \cup (IF ledger.exists THEN {output} ELSE {})

\* the files the run is asked to record: the argument itself, or the files
\* under it that are not excluded and lie under no excluded directory
Expected ==
    IF args.path \in AllFiles
    THEN {f \in {args.path} : ~Excluded(f)}
    ELSE {f \in AllFiles :
             /\ startswith(f, args.path \o "/")
             /\ args.path \in Directories
             /\ ~Excluded(f)
             /\ \A d \in DescendedDirs(f) : ~Excluded(d)}

RootMissing == runs >= 1 /\ ~isfile(args.path) /\ ~isdir(args.path)

Finished == pc = "idle" /\ outcome \in {"done", "raised"}

(***************************************************************************)
(* The claims.                                                             *)
(***************************************************************************)

\* C1: a completed run that found no ledger leaves one header row followed
\* by one data row per file it was asked to record (N of them), and a
\* completed run that found exactly that ledger leaves the same header
\* followed by 2*N data rows, the N names twice over: it writes no header.
C1_OneHeaderTwoN ==
    (pc = "idle" /\ outcome = "done") =>
        /\ Len(written) = Cardinality(Expected)
        /\ ~ledger0.exists =>
              /\ Consistent(ledger.content)
              /\ NamesOf(Lines(ledger.content)) = <<"Filename">> \o written
        /\ ( /\ ledger0.exists
             /\ Consistent(ledger0.content)
             /\ NamesOf(Lines(ledger0.content)) = <<"Filename">> \o written ) =>
              /\ Consistent(ledger.content)
              /\ NamesOf(Lines(ledger.content)) =
                     <<"Filename">> \o written \o written

\* two runs over D, three files each, have completed
C1_Witness ==
    /\ pc = "idle" /\ outcome = "done" /\ runs = 2
    /\ args.path = "D"
    /\ Len(written) = 3
    /\ Consistent(ledger0.content)
    /\ NamesOf(Lines(ledger0.content)) = <<"Filename">> \o written
    /\ Len(Lines(ledger.content)) = 7

\* C2: whatever runs have completed or been terminated, and wherever they
\* were terminated, the ledger on disk is not inconsistent; in particular a
\* ledger that holds a data row has the header as its first row.
C2_NeverInconsistent ==
    ledger.exists =>
        \A i \in 1..Len(Lines(ledger.content)) :
            IsDataLine(Lines(ledger.content)[i]) =>
                Lines(ledger.content)[1] = HeaderLine

\* C3: every row whose writerow call has returned is in the file, complete.
C3_ReturnedRowsOnDisk ==
    outcome \in {"running", "done", "raised"} =>
        \A i \in 1..Len(written) :
            \E j \in 1..Len(Lines(Added)) :
                /\ IsDataLine(Lines(Added)[j])
                /\ Lines(Added)[j][1].v = written[i]

\* C4: a run whose root path does not exist ends with a non-zero exit code.
C4_MissingRootFails == (RootMissing /\ pc = "idle") => exit_code # 0

\* C5: a run whose root path does not exist leaves the ledger as it found
\* it: none is created, an existing one is not changed.
C5_MissingRootNoLedgerIO == RootMissing => ledger = ledger0

\* C6: a run over a directory in which a digest fails still ends with exit
\* code zero, and every file it was asked to record, but the one whose
\* digest failed, has its row.
C6_DigestFailureSkipsOneFile ==
    (Finished /\ isdir(args.path)) =>
        /\ exit_code = 0
        /\ \A f \in Expected :
              f \in Range(written) \/ f \in Range(hashed) \ Range(written)

\* how many rows the current run has appended for p
Occurrences(p) == Cardinality({i \in 1..Len(written) : written[i] = p})

\* C7: the filter rejects a path exactly when the path is hidden and hidden
\* entries are not included, or system and system entries are not included;
\* what a run skips and what it digests follow that rule.  A completed run
\* over D records a.txt once, and .hidden once if and only if
\* --include-hidden was given.
C7_IndependentToggles ==
    runs >= 1 =>
        /\ \A p \in Paths : should_ignore_file(p) <=> Excluded(p)
        /\ \A p \in skipped : Excluded(p)
        /\ \A p \in Range(hashed) : ~Excluded(p)
        /\ (pc = "idle" /\ outcome = "done" /\ args.path = "D") =>
              /\ Occurrences("D/a.txt") = 1
              /\ Occurrences("D/.hidden") = IF args.include_hidden THEN 1 ELSE 0

\* with --include-hidden alone, .hidden is recorded and the system file
\* Thumbs.db is still skipped
C7_Witness ==
    /\ pc = "idle" /\ outcome = "done" /\ args.path = "D"
    /\ args.include_hidden /\ ~args.include_system
    /\ "D/.hidden" \in Range(written)
    /\ "D/a.txt" \in Range(written)
    /\ "D/Thumbs.db" \in skipped

\* C8: no file that is digested or recorded lies under a directory the
\* filter policy excludes, whatever the file's own name.
C8_PrunedSubtrees ==
    /\ Range(written) \subseteq Range(hashed)
    /\ \A f \in Range(hashed) : \A d \in DescendedDirs(f) : ~Excluded(d)

\* D/.git was pruned, and the run over D completed without touching
\* D/.git/c.txt or D/.git/o/d.txt, which the filter itself would accept
C8_Witness ==
    /\ pc = "idle" /\ outcome = "done" /\ args.path = "D"
    /\ "D/.git" \in skipped
    /\ ~Excluded("D/.git/c.txt") /\ ~Excluded("D/.git/o/d.txt")
    /\ "D/.git/c.txt" \notin Range(hashed)
    /\ "D/.git/o/d.txt" \notin Range(hashed)
    /\ "D/a.txt" \in Range(written)

\* C9: a run whose root is a regular file digests and records at most one
\* path; when it completes it has recorded the root if the policy does not
\* exclude the root, and nothing if it does.
C9_SingleFileRoot ==
    (runs >= 1 /\ args.path \in RegularFiles) =>
        /\ Len(hashed) <= 1 /\ Len(written) <= 1
        /\ Cardinality({j \in 1..Len(Lines(Added)) : IsDataLine(Lines(Added)[j])}) <= 1
        /\ (pc = "idle" /\ outcome = "done") =>
              /\ written = IF Excluded(args.path) THEN <<>> ELSE <<args.path>>
              /\ Added = (IF ledger0.exists THEN <<>> ELSE Line(fieldnames)) \o
                         (IF Excluded(args.path) THEN <<>>
                          ELSE Line(<<args.path, hashlib_md5(args.path)>>))

\* the hidden file D/.hidden was named, --include-system alone was given,
\* and the completed run recorded nothing
C9_Witness ==
    /\ pc = "idle" /\ outcome = "done"
    /\ args.path = "D/.hidden"
    /\ ~args.include_hidden /\ args.include_system
    /\ written = <<>>
    /\ "D/.hidden" \in skipped

\* C10: what a run finds in the ledger stays, as a prefix of what the run
\* leaves; a completed run over b.txt against an existing ledger adds the
\* row of b.txt and nothing else.
C10_AppendOnly ==
    runs >= 1 =>
        /\ ledger0.exists => ledger.exists
        /\ IsPrefix(ledger0.content, ledger.content)
        /\ (pc = "idle" /\ outcome = "done" /\ args.path = "b.txt"
                /\ ledger0.exists) =>
              ledger.content =
                  ledger0.content \o Line(<<"b.txt", hashlib_md5("b.txt")>>)

\* a ledger of a header and one row has received the row of b.txt
C10_Witness ==
    /\ pc = "idle" /\ outcome = "done" /\ runs = 2
    /\ args.path = "b.txt"
    /\ Consistent(ledger0.content)
    /\ Len(Lines(ledger0.content)) = 2
    /\ Lines(ledger0.content)[2][1].v # "b.txt"
    /\ Consistent(ledger.content)
    /\ NamesOf(Lines(ledger.content)) =
           NamesOf(Lines(ledger0.content)) \o <<"b.txt">>

\* the positions of events at which something is done to file f
EventsOf(e, f) == {i \in 1..Len(events) : events[i].e = e /\ events[i].f = f}

\* another process has changed f while this run was digesting it
Changed(f) == EventsOf("grow", f) \cup EventsOf("shrink", f) # {}

\* the regular files that hold no byte
ZeroByteFiles == {f \in RegularFiles : Size[f] = 0}

\* C11: a file of zero bytes that the filter lets through is digested
\* without error: no read of it reaches the division by the sampled size,
\* which is zero, so no ZeroDivisionError ends the run at it; the row
\* written for it carries the digest of the empty input; and a run that
\* completes has written a row for every such file the traversal listed.
C11_ZeroByteFile ==
    \A f \in ZeroByteFiles :
        ~Changed(f) =>
            /\ \A i \in EventsOf("raise", f) : events[i].md5 # "ZeroDivisionError"
            /\ \A i \in EventsOf("row", f) : events[i].md5 = EmptyDigest
            /\ (pc \in {"read", "hexdigest"} /\ CurrentFile = f) =>
                  /\ total_size = 0 /\ read_size = 0
                  /\ reports = <<>> /\ md5_object = <<>>
            /\ (pc = "idle" /\ outcome = "done" /\ f \in Range(discovered)
                    /\ ~Excluded(f)) =>
                  EventsOf("row", f) # {}

\* the empty file D/lost+found/e.txt has been read to its end at the first
\* read and its row carries the digest of the empty input
C11_Witness ==
    /\ pc = "idle" /\ outcome = "done"
    /\ ~Changed("D/lost+found/e.txt")
    /\ \E i \in EventsOf("row", "D/lost+found/e.txt") :
          /\ events[i].md5 = EmptyDigest
          /\ events[i - 1] = Event("eof", "D/lost+found/e.txt", "")
          /\ events[i - 2] = Event("open", "D/lost+found/e.txt", "")

\* C12: within one call of hashlib_md5 the percentages written are
\* non-decreasing, the percentage never exceeds 100, no read fails in the
\* progress computation, and once the last chunk has been consumed the
\* percentage is 100, whatever happens to the length of the file between
\* the sample of its size and end-of-file.
C12_ProgressReaches100 ==
    /\ \A i \in 1..(Len(reports) - 1) : reports[i] <= reports[i + 1]
    /\ \A i \in 1..Len(reports) : reports[i] <= 100
    /\ last_percent_done <= 100 * total_size
    /\ (pc = "hexdigest" /\ read_size > 0) =>
          /\ last_percent_done = 100 * total_size
          /\ reports # <<>> /\ reports[Len(reports)] = 100
    /\ error # "ZeroDivisionError"

\* the files that have been skipped or recorded, in order
RECURSIVE Processed(_)
Processed(evs) ==
    IF evs = <<>> THEN <<>>
    ELSE IF Head(evs).e \in {"skip", "row", "raise"}
         THEN <<Head(evs).f>> \o Processed(Tail(evs))
         ELSE Processed(Tail(evs))

\* the files of the data rows the run has written, in the order of the bytes
RECURSIVE RowNames(_)
RowNames(ls) ==
    IF ls = <<>> THEN <<>>
    ELSE IF IsDataLine(Head(ls)) THEN <<Head(ls)[1].v>> \o RowNames(Tail(ls))
         ELSE RowNames(Tail(ls))

\* the members of seq that are in S, in order
RECURSIVE Only(_, _)
Only(seq, S) ==
    IF seq = <<>> THEN <<>>
    ELSE IF Head(seq) \in S THEN <<Head(seq)>> \o Only(Tail(seq), S)
         ELSE Only(Tail(seq), S)

\* C13: files are processed one after the other.  The row of a file follows
\* the end-of-file of that file, which follows its opening, with nothing
\* done to any other file in between; a file is opened only when every file
\* opened before it has its row; the files are taken in the order in which
\* the traversal listed them; and the data rows the run has appended are
\* those of the files recorded, in that order.
C13_Sequential ==
    /\ \A i \in 1..Len(events) :
          /\ events[i].e = "row" =>
                /\ i >= 3
                /\ \E j \in 1..(i - 1) :
                      /\ events[j] = Event("eof", events[i].f, "")
                      /\ \E k \in 1..(j - 1) :
                            /\ events[k] = Event("open", events[i].f, "")
                            /\ \A m \in (k + 1)..(i - 1) :
                                  /\ events[m].f = events[i].f
                                  /\ events[m].e \in {"grow", "shrink", "eof"}
          /\ events[i].e = "open" =>
                \A k \in 1..(i - 1) :
                    events[k].e = "open" =>
                        \E m \in (k + 1)..(i - 1) :
                            events[m].e = "row" /\ events[m].f = events[k].f
    /\ IsPrefix(Processed(events), discovered)
    /\ written = Only(discovered, Range(written))
    /\ pc # "idle" =>
          RowNames(Lines(Added \o pending)) = written

\* a completed run has recorded the three files of one directory in the
\* order of its listing, the last of them read in three chunks, and gone on
\* to the files of another directory
C13_Witness ==
    /\ pc = "idle" /\ outcome = "done"
    /\ Len(written) > 3
    /\ SubSeq(written, 1, 3) = <<"D/a.txt", "D/.hidden", "D/Thumbs.db">>
    /\ SubSeq(discovered, 1, 3) = SubSeq(written, 1, 3)
    /\ events[9] = Event("row", "D/Thumbs.db", hashlib_md5("D/Thumbs.db"))
    /\ events[7] = Event("open", "D/Thumbs.db", "")


\* the names a platform's branch of is_system_file lists
PatternsOf(pf) ==
    CASE pf.system = "Windows" -> WindowsPatterns
      [] pf.system = "Darwin"  -> DarwinPatterns
      [] pf.system = "Linux"   -> LinuxPatterns
      [] OTHER                 -> {}

\* C14: where is_system_file goes by names (every branch but the Windows
\* attribute lookup), it says system only of a path whose final component,
\* in lower case, equals an entry of the platform's list: a name that merely
\* contains an entry, and a path that merely lies under a directory named
\* by an entry or a pattern, is not system.
C14_FinalComponentOnly ==
    (probe.path # "" /\ ~reads_attributes(platform) /\ probe.system.value) =>
        lower(basename(probe.path)) \in PatternsOf(platform)

\* C15: is_hidden_file and is_system_file return for every path, on every
\* platform, whether or not the path exists and its attributes can be read:
\* neither call ends with an exception, and when the attributes cannot be
\* read the answers are those the name alone gives.
C15_NeverRaises ==
    probe.path # "" =>
        /\ probe.hidden.raised = ""
        /\ probe.system.raised = ""
        /\ (reads_attributes(platform) /\ ~probe.exists) =>
              /\ probe.hidden.value = startswith(basename(probe.path), ".")
              /\ ~probe.system.value

\* the directories with a leading dot that are not system entries
DotDirs ==
    {d \in Directories : startswith(basename(d), ".") /\ ~System[platform][d]}

\* C16: one predicate, bound with the flags of the run before the ledger
\* is opened, decides for directories as for files: whatever a run skips
\* is excluded under its flags and whatever it digests is not; a completed
\* run with --include-hidden has descended into a dot-prefixed directory of
\* its root and recorded the files there that are not excluded, and a
\* completed run without the flag has pruned the directory and digested
\* nothing under it.
C16_FlagsGovernPruning ==
    runs >= 1 =>
        /\ \A p \in skipped : Excluded(p)
        /\ \A p \in Range(hashed) : ~Excluded(p)
        /\ pc \notin {"idle", "open"} => ledger.exists
        /\ \A d \in DotDirs :
              (pc = "idle" /\ outcome = "done" /\ dirname(d) = args.path) =>
                  IF args.include_hidden
                  THEN /\ d \notin skipped
                       /\ \A f \in RegularFiles :
                             (dirname(f) = d /\ ~Excluded(f)) =>
                                 f \in Range(written)
                  ELSE /\ d \in skipped
                       /\ \A f \in Range(hashed) : ~startswith(f, d \o "/")

\* a completed run over D with --include-hidden has descended into D/.git
\* and recorded D/.git/c.txt
C16_Witness ==
    /\ pc = "idle" /\ outcome = "done"
    /\ args.path = "D" /\ args.include_hidden
    /\ "D/.git" \notin skipped
    /\ "D/.git/c.txt" \in Range(written)

\* the digest of the first k tokens of a file
DigestOfPrefix(bytes, k) == "md5(" \o Flat(SubSeq(bytes, 1, k)) \o ")"

\* C17: a completed run over the directory that holds the ledger, when the
\* filter does not exclude the ledger, has digested the ledger and written
\* one row for it, and the digest in that row is that of what the ledger
\* held at some moment of the run: the file as the run found it with some
\* of what the run itself had written so far.
C17_LedgerRecorded ==
    (pc = "idle" /\ outcome = "done" /\ args.path = dirname(output)
         /\ ~Excluded(output)) =>
        /\ output \in Range(hashed)
        /\ Occurrences(output) = 1
        /\ \E k \in Len(ledger0.content)..Len(ledger.content) :
              \E i \in 1..Len(Lines(ledger.content)) :
                  Lines(ledger.content)[i] =
                      <<Field(output), Comma,
                        Field(DigestOfPrefix(ledger.content, k))>>

\* a completed run over D with the ledger D/checksums.csv has written the
\* row of the ledger after the rows of the other files of D
C17_Witness ==
    /\ pc = "idle" /\ outcome = "done"
    /\ args.path = "D" /\ output = "D/checksums.csv"
    /\ Len(written) >= 2
    /\ written[1] = "D/a.txt"
    /\ output \in Range(written)

=============================================================================
